---- MODULE Spec2Model ----
(***************************************************************************)
(* The three CRUD controllers of school-api (course, student, teacher)     *)
(* over one persistence table each.  A request is a handler instance that  *)
(* runs from one `await` to the next; the awaited persistence call takes   *)
(* effect at the step in which its promise settles.  The three controllers *)
(* share no state, so a behaviour follows the handlers of one controller,  *)
(* chosen in Init (ent).                                                   *)
(*                                                                         *)
(* Strings that the code parses (limit, page, populate) are sequences of   *)
(* symbols; strings that the code only compares (sort) are TLA+ strings.   *)
(***************************************************************************)
EXTENDS Integers, Sequences, FiniteSets, TLC

VARIABLES ent, store, nextId, req, gone

vars == <<ent, store, nextId, req, gone>>

\* ------------------------------------------------------------------ bounds

\* longest limit / page string
MaxStrLen == 2
\* longest populate string, in symbols
MaxPopLen == 3
\* largest fixture of the listing specification
MaxRows == 12
\* largest primary key of the concurrent specification
MaxId == 2
\* concurrent requests
NumReqs == 2

\* ------------------------------------------------------------ the domain

Entities == {"course", "student", "teacher"}

\* the symbols of a limit / page string
NumChars == {"0", "1", "3", "5", "-", "a", "x"}

\* the symbols of a populate string: "," and fragments of relation names
\* ("students" is <<"student", "s">>)
PopChars == {",", "teacher", "student", "s", "courses", "bogus"}

SeqsUpTo(S, n) == UNION {[1..k -> S] : k \in 0..n}

\* a query parameter: absent (undefined) or a string
NoParam == [given |-> FALSE, text |-> <<>>]
Param(s) == [given |-> TRUE, text |-> s]

Min(a, b) == IF a < b THEN a ELSE b
Max(a, b) == IF a > b THEN a ELSE b

RECURSIVE Reverse(_)
Reverse(s) == IF s = <<>> THEN <<>> ELSE Append(Reverse(Tail(s)), Head(s))

\* --------------------------------------------------- parseInt(string)

HexDigits == <<"0", "1", "2", "3", "4", "5", "6", "7", "8", "9",
               "a", "b", "c", "d", "e", "f">>

IsDigit(c, radix) == \E i \in 1..radix : HexDigits[i] = c

DigitValue(c) == (CHOOSE i \in 1..16 : HexDigits[i] = c) - 1

NaN == [nan |-> TRUE, val |-> 0]
Num(n) == [nan |-> FALSE, val |-> n]

RECURSIVE TrimStart(_)
TrimStart(s) ==
    IF s # <<>> /\ Head(s) = " " THEN TrimStart(Tail(s)) ELSE s

\* the longest prefix of s made of digits of the radix, as a number;
\* NaN when that prefix is empty
RECURSIVE DigitsValue(_, _, _, _)
DigitsValue(s, radix, acc, any) ==
    IF s # <<>> /\ IsDigit(Head(s), radix)
    THEN DigitsValue(Tail(s), radix, acc * radix + DigitValue(Head(s)), TRUE)
    ELSE IF any THEN Num(acc) ELSE NaN

\* parseInt without a radix: leading white space, a sign, a 0x prefix
\* (radix 16), then the longest run of digits; undefined reads "undefined"
parseInt(p) ==
    IF ~p.given THEN NaN
    ELSE LET s0   == TrimStart(p.text)
             neg  == s0 # <<>> /\ Head(s0) = "-"
             s1   == IF s0 # <<>> /\ Head(s0) \in {"-", "+"} THEN Tail(s0) ELSE s0
             hex  == Len(s1) >= 2 /\ s1[1] = "0" /\ s1[2] \in {"x", "X"}
             s2   == IF hex THEN SubSeq(s1, 3, Len(s1)) ELSE s1
             v    == DigitsValue(s2, IF hex THEN 16 ELSE 10, 0, FALSE)
         IN  IF v.nan THEN NaN ELSE Num(IF neg THEN 0 - v.val ELSE v.val)

\* ------------------------------------------------ the list query, steps 1-3

\* x || d on a number: NaN and 0 are falsy
OrDefaultNoZero(x, d) == IF x.nan THEN d ELSE x.val
OrDefault(x, d) == IF x.nan \/ x.val = 0 THEN d ELSE x.val

DefaultLimit == 10
DefaultPage == 1

Limit(q) == OrDefault(parseInt(q.limit), DefaultLimit)
Page(q) == OrDefault(parseInt(q.page), DefaultPage)

OffsetClamped(page, limit) == Max(0, (page - 1) * limit)
Offset(page, limit) == (page - 1) * limit

SortIgnoreCase(q) ==
    IF q.sort.given /\ q.sort.text \in {"desc", "DESC"} THEN "DESC" ELSE "ASC"
Sort(q) == IF q.sort.given /\ q.sort.text = "desc" THEN "DESC" ELSE "ASC"

\* String.prototype.split(','): the pieces between the commas, in order
RECURSIVE Split(_, _)
Split(s, cur) ==
    IF s = <<>> THEN <<cur>>
    ELSE IF Head(s) = "," THEN <<cur>> \o Split(Tail(s), <<>>)
    ELSE Split(Tail(s), Append(cur, Head(s)))

\* req.query.populate?.split(',') || []
Populate(q) == IF q.populate.given THEN Split(q.populate.text, <<>>) ELSE <<>>

Includes(arr, x) == \E i \in 1..Len(arr) : arr[i] = x

\* the two `if (populate.includes(name)) includeModels.push(model)` lines
AllowedRelations(e) ==
    CASE e = "course"  -> << [name |-> <<"teacher">>, model |-> "Teacher"],
                             [name |-> <<"student">>, model |-> "Student"] >>
      [] e = "student" -> << [name |-> <<"teacher">>, model |-> "Teacher"],
                             [name |-> <<"courses">>, model |-> "Course"] >>
      [] e = "teacher" -> << [name |-> <<"student", "s">>, model |-> "Student"],
                             [name |-> <<"courses">>, model |-> "Course"] >>

RECURSIVE PushIncluded(_, _)
PushIncluded(rels, populate) ==
    IF rels = <<>> THEN <<>>
    ELSE (IF Includes(populate, Head(rels).name)
          THEN <<Head(rels).model>> ELSE <<>>)
         \o PushIncluded(Tail(rels), populate)

RECURSIVE PushInClientOrder(_, _)
PushInClientOrder(rels, populate) ==
    IF populate = <<>> THEN <<>>
    ELSE (IF \E i \in 1..Len(rels) : rels[i].name = Head(populate)
          THEN <<(CHOOSE r \in {rels[i] : i \in 1..Len(rels)} :
                     r.name = Head(populate)).model>>
          ELSE <<>>)
         \o PushInClientOrder(rels, Tail(populate))

IncludeModelsClientOrder(e, q) == PushInClientOrder(AllowedRelations(e), Populate(q))
IncludeModels(e, q) == PushIncluded(AllowedRelations(e), Populate(q))

\* ------------------------------------------------------ the persistence layer

\* a table: its rows in creation order (createdAt ascending)
Row(id, val) == [id |-> id, val |-> val]

Vals == {"a", "b"}

RECURSIVE Fixture(_)
Fixture(n) == IF n = 0 THEN <<>> ELSE Append(Fixture(n - 1), Row(n, "a"))

Ids(rows) == {rows[i].id : i \in 1..Len(rows)}

\* Model.count()
CountCapped(rows) == Min(Len(rows), 1)
Count(rows) == Len(rows)

\* Model.findByPk(id): the row, or null
HasPkFirst(rows, id) == rows # <<>> /\ rows[1].id = id
HasPk(rows, id) == id \in Ids(rows)
FindByPk(rows, id) == CHOOSE x \in {rows[i] : i \in 1..Len(rows)} : x.id = id

\* Model.findAll({limit, offset, order: [['createdAt', sort]], include}):
\* ORDER BY createdAt, skip offset rows, take limit rows, each row with the
\* included relations.  A negative limit means no limit and a negative
\* offset means none where the database accepts them; where it does not, the
\* call rejects like any other failed call.
FindAll(rows, limit, offset, sort, include) ==
    LET ordered == IF sort = "DESC" THEN Reverse(rows) ELSE rows
        n   == Len(ordered)
        lo  == Max(0, offset)
        hi  == IF limit < 0 THEN n ELSE Min(n, lo + limit)
    IN  [i \in 1..Max(0, hi - lo) |->
            [id |-> ordered[lo + i].id, val |-> ordered[lo + i].val,
             with |-> include]]

\* instance.update(fields): UPDATE ... WHERE id; no row, no change, no error
UpsertRow(rows, id, val) ==
    IF HasPk(rows, id)
    THEN [i \in 1..Len(rows) |-> IF rows[i].id = id THEN Row(id, val) ELSE rows[i]]
    ELSE Append(rows, Row(id, val))
UpdateRow(rows, id, val) ==
    [i \in 1..Len(rows) |-> IF rows[i].id = id THEN Row(id, val) ELSE rows[i]]

\* instance.destroy(): DELETE ... WHERE id; no row, no change, no error
RECURSIVE DestroyRow(_, _)
DestroyRow(rows, id) ==
    IF rows = <<>> THEN <<>>
    ELSE IF Head(rows).id = id THEN DestroyRow(Tail(rows), id)
    ELSE <<Head(rows)>> \o DestroyRow(Tail(rows), id)

\* Math.ceil(total / limit) for total >= 0 and limit # 0
CeilDiv(total, limit) ==
    IF limit > 0 THEN (total + limit - 1) \div limit
    ELSE 0 - (total \div (0 - limit))

\* ------------------------------------------------------------ the responses

NoBody == [keys |-> <<>>]
MsgNotFound == [keys |-> <<"message">>, message |-> "Not found"]
MsgDeleted == [keys |-> <<"message">>, message |-> "Deleted"]
ErrBody == [keys |-> <<"error">>, error |-> "err.message"]
EntityBody(row, include) ==
    [keys |-> <<"id", "val">>, id |-> row.id, val |-> row.val, with |-> include]

\* the object literal handed to res.json by each list handler, in key order
EnvelopeKeys(e) ==
    IF e = "course" THEN <<"total", "page", "data", "totalPages">>
    ELSE <<"total", "page", "totalPages", "data">>

Envelope(e, total, page, limit, data) ==
    [keys |-> EnvelopeKeys(e), total |-> total, page |-> page,
     totalPages |-> CeilDiv(total, limit), data |-> data]

\* the relations getXById always loads
ByIdInclude(e) ==
    CASE e = "course"  -> <<"Student", "Teacher">>
      [] e = "student" -> <<"Course", "Teacher">>
      [] e = "teacher" -> <<"Course", "Student">>

\* ------------------------------------------------------------- the requests

Reqs == 1..NumReqs

NoQuery == [limit |-> NoParam, page |-> NoParam, sort |-> NoParam,
            populate |-> NoParam]

\* a request slot.  kind, pc: the handler and the await it stands at;
\* status, out, sent: the response; calls: update / destroy calls issued;
\* threw: a persistence call rejected; afterDel, dirty, seen: history
Idle == [kind |-> "none", pc |-> "idle", id |-> 0, val |-> "a", q |-> NoQuery,
         limit |-> 0, page |-> 0, sort |-> "ASC", include |-> <<>>,
         offset |-> 0, total |-> 0, found |-> FALSE, status |-> 0,
         out |-> NoBody, sent |-> 0, calls |-> 0, threw |-> FALSE,
         afterDel |-> FALSE, dirty |-> FALSE, seen |-> 0]

\* res.status(status).json(out), the handler's last statement on its path
Answer(s, status, out) ==
    [s EXCEPT !.pc = "done", !.status = status, !.out = out, !.sent = @ + 1]

\* catch (err) { res.status(500).json({ error: err.message }) }
Catch(s) == Answer([s EXCEPT !.threw = TRUE], 500, ErrBody)

\* if (!entity) return res.status(404).json({ message: 'Not found' })
NotFoundNoReturn(s) == Catch(Answer(s, 404, MsgNotFound))
NotFound(s) == Answer(s, 404, MsgNotFound)

\* a create or destroy that takes effect between a list request's count and
\* its findAll (history)
Touch(rq) ==
    [x \in Reqs |->
        IF rq[x].kind = "getAll" /\ rq[x].pc = "findAll"
        THEN [rq[x] EXCEPT !.dirty = TRUE] ELSE rq[x]]

\* a create of id takes effect: a pending get-by-id of id no longer counts as
\* following a delete with no create in between (history)
Recreated(rq, id) ==
    [x \in Reqs |->
        IF rq[x].kind = "getById" /\ rq[x].id = id /\ rq[x].pc # "done"
        THEN [rq[x] EXCEPT !.afterDel = FALSE] ELSE rq[x]]

\* ------------------------------------------------------------------ create

\* POST /Es: the handler runs to `await Model.create(req.body)`; the body may
\* carry its own primary key (id # 0)
createStart(r, id, val) ==
    /\ req[r].pc = "idle"
    /\ req' = [req EXCEPT ![r] = [Idle EXCEPT !.kind = "create", !.pc = "create",
                                              !.id = id, !.val = val]]
    /\ UNCHANGED <<ent, store, nextId, gone>>

\* Model.create settles: a duplicate primary key or any other failure
\* rejects (500); otherwise the row is appended and answered with 201
createDone(r, fail) ==
    /\ req[r].kind = "create" /\ req[r].pc = "create"
    /\ LET id == IF req[r].id = 0 THEN nextId ELSE req[r].id
       IN  IF fail \/ HasPk(store, id)
           THEN /\ req' = [req EXCEPT ![r] = Catch(@)]
                /\ UNCHANGED <<ent, store, nextId, gone>>
           ELSE /\ id <= MaxId
                /\ store' = Append(store, Row(id, req[r].val))
                /\ nextId' = Max(nextId, id + 1)
                /\ gone' = gone \ {id}
                /\ req' = [Touch(Recreated(req, id)) EXCEPT
                             ![r] = Answer(@, 201, EntityBody(Row(id, req[r].val), <<>>))]
                /\ UNCHANGED ent

\* ------------------------------------------------------------------ getAll

\* GET /Es: pagination, sorting and populate are computed before the try
\* block; the handler runs to `await Model.count()`
getAllStart(r, q) ==
    /\ req[r].pc = "idle"
    /\ req' = [req EXCEPT ![r] =
                 [Idle EXCEPT !.kind = "getAll", !.pc = "count", !.q = q,
                              !.limit = Limit(q), !.page = Page(q),
                              !.sort = Sort(q),
                              !.include = IncludeModels(ent, q)]]
    /\ UNCHANGED <<ent, store, nextId, gone>>

\* Model.count() settles; the handler calls findAll with its limit and offset
getAllCount(r, fail) ==
    /\ req[r].kind = "getAll" /\ req[r].pc = "count"
    /\ req' = [req EXCEPT ![r] =
                 IF fail THEN Catch(@)
                 ELSE [@ EXCEPT !.pc = "findAll", !.total = Count(store),
                                !.offset = Offset(req[r].page, req[r].limit)]]
    /\ UNCHANGED <<ent, store, nextId, gone>>

\* Model.findAll settles; the handler answers with the envelope
getAllFindAll(r, fail) ==
    /\ req[r].kind = "getAll" /\ req[r].pc = "findAll"
    /\ req' = [req EXCEPT ![r] =
                 IF fail THEN Catch(@)
                 ELSE Answer([@ EXCEPT !.seen = Len(store)], 200,
                             Envelope(ent, @.total, @.page, @.limit,
                                      FindAll(store, @.limit, @.offset, @.sort,
                                              @.include)))]
    /\ UNCHANGED <<ent, store, nextId, gone>>

\* ----------------------------------------------------------------- getById

\* GET /Es/{id}: the handler runs to `await Model.findByPk(id, {include})`
getByIdStart(r, id) ==
    /\ req[r].pc = "idle"
    /\ req' = [req EXCEPT ![r] = [Idle EXCEPT !.kind = "getById", !.pc = "findByPk",
                                              !.id = id, !.afterDel = (id \in gone)]]
    /\ UNCHANGED <<ent, store, nextId, gone>>

getByIdFindByPk(r, fail) ==
    /\ req[r].kind = "getById" /\ req[r].pc = "findByPk"
    /\ req' = [req EXCEPT ![r] =
                 IF fail THEN Catch(@)
                 ELSE IF ~HasPk(store, @.id) THEN NotFound(@)
                 ELSE Answer([@ EXCEPT !.found = TRUE], 200,
                             EntityBody(FindByPk(store, @.id), ByIdInclude(ent)))]
    /\ UNCHANGED <<ent, store, nextId, gone>>

\* ------------------------------------------------------------------ update

\* PUT /Es/{id}: the handler runs to `await Model.findByPk(id)`
updateStart(r, id, val) ==
    /\ req[r].pc = "idle"
    /\ req' = [req EXCEPT ![r] = [Idle EXCEPT !.kind = "update", !.pc = "findByPk",
                                              !.id = id, !.val = val]]
    /\ UNCHANGED <<ent, store, nextId, gone>>

\* findByPk settles: null answers 404; a row goes on to `await entity.update`
updateFindByPk(r, fail) ==
    /\ req[r].kind = "update" /\ req[r].pc = "findByPk"
    /\ req' = [req EXCEPT ![r] =
                 IF fail THEN Catch(@)
                 ELSE IF ~HasPk(store, @.id) THEN NotFound(@)
                 ELSE [@ EXCEPT !.found = TRUE, !.pc = "update", !.calls = @ + 1]]
    /\ UNCHANGED <<ent, store, nextId, gone>>

\* entity.update(req.body) settles; the handler answers with the instance
updateUpdate(r, fail) ==
    /\ req[r].kind = "update" /\ req[r].pc = "update"
    /\ IF fail
       THEN /\ req' = [req EXCEPT ![r] = Catch(@)]
            /\ UNCHANGED store
       ELSE /\ store' = UpdateRow(store, req[r].id, req[r].val)
            /\ req' = [req EXCEPT ![r] =
                         Answer(@, 200, EntityBody(Row(@.id, @.val), <<>>))]
    /\ UNCHANGED <<ent, nextId, gone>>

\* ------------------------------------------------------------------ delete

\* DELETE /Es/{id}: the handler runs to `await Model.findByPk(id)`
deleteStart(r, id) ==
    /\ req[r].pc = "idle"
    /\ req' = [req EXCEPT ![r] = [Idle EXCEPT !.kind = "delete", !.pc = "findByPk",
                                              !.id = id]]
    /\ UNCHANGED <<ent, store, nextId, gone>>

\* findByPk settles: null answers 404; a row goes on to `await entity.destroy`
deleteFindByPk(r, fail) ==
    /\ req[r].kind = "delete" /\ req[r].pc = "findByPk"
    /\ req' = [req EXCEPT ![r] =
                 IF fail THEN Catch(@)
                 ELSE IF ~HasPk(store, @.id) THEN NotFound(@)
                 ELSE [@ EXCEPT !.found = TRUE, !.pc = "destroy", !.calls = @ + 1]]
    /\ UNCHANGED <<ent, store, nextId, gone>>

\* entity.destroy() settles; the handler answers { message: 'Deleted' }
deleteDestroy(r, fail) ==
    /\ req[r].kind = "delete" /\ req[r].pc = "destroy"
    /\ IF fail
       THEN /\ req' = [req EXCEPT ![r] = Catch(@)]
            /\ UNCHANGED <<store, gone>>
       ELSE /\ store' = DestroyRow(store, req[r].id)
            /\ gone' = gone \cup {req[r].id}
            /\ req' = [Touch(req) EXCEPT ![r] = Answer(@, 200, MsgDeleted)]
    /\ UNCHANGED <<ent, nextId>>

\* the response is out and the connection closes: the slot takes a new request
Finish(r) ==
    /\ req[r].pc = "done"
    /\ req' = [req EXCEPT ![r] = Idle]
    /\ UNCHANGED <<ent, store, nextId, gone>>

\* ---------------------------------------------------------- specifications

\* the strings a client may send as limit or page
NumStrings == SeqsUpTo(NumChars, MaxStrLen)
NumParams == {NoParam} \cup {Param(s) : s \in NumStrings}

\* the strings a client may send as populate
PopStrings == SeqsUpTo(PopChars, MaxPopLen)
PopParams == {NoParam} \cup {Param(s) : s \in PopStrings}

SortParams == {NoParam, Param("asc"), Param("desc"), Param("DESC")}

Str(n) == CASE n = 1 -> <<"1">> [] n = 2 -> <<"2">> [] n = 3 -> <<"3">>
            [] n = 5 -> <<"5">> [] n = 10 -> <<"1", "0">>

\* queries that vary limit and page
PagingQueries ==
    {[NoQuery EXCEPT !.limit = l, !.page = p] : l \in NumParams, p \in NumParams}

\* queries that vary populate
PopulateQueries == {[NoQuery EXCEPT !.populate = p] : p \in PopParams}

\* well-formed queries over a fixture
ListQueries ==
    {[NoQuery EXCEPT !.limit = l, !.page = p, !.sort = s] :
        l \in {NoParam} \cup {Param(Str(n)) : n \in {1, 2, 5, 10}},
        p \in {NoParam} \cup {Param(Str(n)) : n \in {1, 2, 3}},
        s \in SortParams}

\* the list queries of the concurrent specification
RaceQueries == {NoQuery, [NoQuery EXCEPT !.limit = Param(Str(1))]}

\* concurrent requests against one table
Init ==
    /\ ent \in Entities
    /\ \E n \in 0..MaxId : store = Fixture(n) /\ nextId = n + 1
    /\ req = [r \in Reqs |-> Idle]
    /\ gone = {}

Next ==
    \E r \in Reqs :
        \/ \E id \in 0..MaxId, val \in Vals : createStart(r, id, val)
        \/ \E fail \in BOOLEAN : createDone(r, fail)
        \/ \E q \in RaceQueries : getAllStart(r, q)
        \/ \E fail \in BOOLEAN : getAllCount(r, fail)
        \/ \E fail \in BOOLEAN : getAllFindAll(r, fail)
        \/ \E id \in 1..MaxId : getByIdStart(r, id)
        \/ \E fail \in BOOLEAN : getByIdFindByPk(r, fail)
        \/ \E id \in 1..MaxId, val \in Vals : updateStart(r, id, val)
        \/ \E fail \in BOOLEAN : updateFindByPk(r, fail)
        \/ \E fail \in BOOLEAN : updateUpdate(r, fail)
        \/ \E id \in 1..MaxId : deleteStart(r, id)
        \/ \E fail \in BOOLEAN : deleteFindByPk(r, fail)
        \/ \E fail \in BOOLEAN : deleteDestroy(r, fail)
        \/ Finish(r)

Spec == Init /\ [][Next]_vars

\* one list request at a time over a fixture that no request changes
InitList ==
    /\ ent \in Entities
    /\ \E n \in 0..MaxRows : store = Fixture(n) /\ nextId = n + 1
    /\ req = [r \in Reqs |-> Idle]
    /\ gone = {}

NextList ==
    \/ req[1].pc = "idle" /\ \E q \in ListQueries : getAllStart(1, q)
    \/ \E fail \in BOOLEAN : getAllCount(1, fail)
    \/ \E fail \in BOOLEAN : getAllFindAll(1, fail)
    \/ Finish(1)

SpecList == InitList /\ [][NextList]_vars

\* one list request at a time, over every limit, page and populate string
InitQuery ==
    /\ ent \in Entities
    /\ store = Fixture(MaxId) /\ nextId = MaxId + 1
    /\ req = [r \in Reqs |-> Idle]
    /\ gone = {}

NextQuery ==
    \/ req[1].pc = "idle" /\ \E q \in PagingQueries : getAllStart(1, q)
    \/ req[1].pc = "idle" /\ \E q \in PopulateQueries : getAllStart(1, q)
    \/ \E fail \in BOOLEAN : getAllCount(1, fail)
    \/ \E fail \in BOOLEAN : getAllFindAll(1, fail)
    \/ Finish(1)

SpecQuery == InitQuery /\ [][NextQuery]_vars

\* ------------------------------------------------------------------ claims

Answered(r) == req[r].pc = "done"

\* C1: a DELETE whose lookup found the entity and whose calls did not reject
\* answers 200 with {message: 'Deleted'}; once it has answered, the id is
\* out of the table until a create of that id, and a GET-by-id of the id
\* that starts after that answer, with no create of the id in between,
\* answers 404 'Not found' (500 only when its lookup rejects)
C1_DeleteThenGet404 ==
    /\ \A id \in gone : ~HasPk(store, id)
    /\ \A r \in Reqs :
          /\ req[r].kind = "delete" /\ Answered(r) /\ req[r].found /\ ~req[r].threw
                => req[r].status = 200 /\ req[r].out = MsgDeleted
          /\ req[r].kind = "delete" /\ Answered(r) /\ req[r].status = 200
                => req[r].found /\ req[r].out = MsgDeleted
          /\ req[r].kind = "getById" /\ Answered(r) /\ req[r].afterDel
                => \/ req[r].status = 404 /\ req[r].out = MsgNotFound
                   \/ req[r].status = 500 /\ req[r].threw

C1_Witness ==
    \E r \in Reqs :
        /\ req[r].kind = "getById" /\ Answered(r) /\ req[r].afterDel
        /\ req[r].status = 404
        /\ req[r].id \in gone

\* what the step of request r does about 404
C2_NotFoundStep(r) ==
    LET miss == ~(req[r].id \in Ids(store))
    IN  /\ req[r].pc = "findByPk" /\ req'[r].pc # "findByPk"
            => /\ (req'[r].status = 404) <=> (miss /\ ~req'[r].threw)
               /\ miss /\ ~req'[r].threw
                    => /\ req'[r].out = MsgNotFound
                       /\ req'[r].pc = "done"
                       /\ req'[r].calls = 0
                       /\ req'[r].sent = 1
                       /\ store' = store
        /\ req[r].pc # "findByPk" /\ req[r].status # 404 => req'[r].status # 404

\* C2: a lookup step of GET-by-id, PUT or DELETE answers 404 exactly when
\* findByPk returns nothing; the 404 carries {message: 'Not found'}, ends the
\* handler with no update or destroy call and leaves the table as it was;
\* no other handler and no other step answers 404
C2_NotFoundOnlyOnMiss == [][\A r \in Reqs : C2_NotFoundStep(r)]_vars

C2_Witness ==
    \E r \in Reqs :
        /\ req[r].kind = "delete" /\ Answered(r) /\ req[r].status = 404
        /\ store # <<>>

\* C3: the limit a list handler computes is at least 1
C3_LimitAtLeastOne ==
    \A r \in Reqs : req[r].kind = "getAll" => req[r].limit >= 1

\* C4: a limit that is absent, does not parse or parses to 0 gives limit 10;
\* a page that is absent, does not parse or parses to 0 gives page 1 and
\* offset 0; every other parsed integer is the limit / page as it is
C4_Defaults ==
    \A r \in Reqs : req[r].kind = "getAll" =>
        LET q  == req[r].q
            pl == parseInt(q.limit)
            pp == parseInt(q.page)
            called == req[r].pc = "findAll" \/ req[r].status = 200
            junk == {<<>>, <<"a">>, <<"-">>, <<"x">>, <<"a", "1">>, <<"-", "a">>,
                     <<"x", "5">>, <<"0">>, <<"0", "0">>, <<"-", "0">>,
                     <<"0", "a">>, <<"0", "x">>}
        IN  /\ (pl.nan \/ pl.val = 0) => req[r].limit = 10
            /\ ~(pl.nan \/ pl.val = 0) => req[r].limit = pl.val
            /\ (pp.nan \/ pp.val = 0) => req[r].page = 1
            /\ ~(pp.nan \/ pp.val = 0) => req[r].page = pp.val
            /\ (pp.nan \/ pp.val = 0) /\ called => req[r].offset = 0
            /\ ~q.limit.given \/ q.limit.text \in junk => req[r].limit = 10
            /\ ~q.page.given \/ q.page.text \in junk => req[r].page = 1
            /\ q.limit.given /\ q.limit.text = <<"5">> => req[r].limit = 5
            /\ q.limit.given /\ q.limit.text = <<"3", "a">> => req[r].limit = 3
            /\ q.limit.given /\ q.limit.text = <<"-", "1">> => req[r].limit = 0 - 1
            /\ q.page.given /\ q.page.text = <<"1", "3">> => req[r].page = 13
            /\ q.page.given /\ q.page.text = <<"-", "5">> => req[r].page = 0 - 5

C4_Witness ==
    \E r \in Reqs :
        /\ req[r].kind = "getAll" /\ req[r].status = 200
        /\ req[r].q.limit = Param(<<"0">>) /\ req[r].q.page = Param(<<"a">>)
        /\ req[r].limit = 10 /\ req[r].page = 1 /\ req[r].offset = 0

\* C5: the offset handed to findAll is (page - 1) * limit, not clamped:
\* page 3 with limit 5 gives 10; page -1 with limit 10 is reported as page -1
\* and gives offset -20
C5_OffsetExact ==
    \A r \in Reqs :
        req[r].kind = "getAll" /\ (req[r].pc = "findAll" \/ req[r].status = 200) =>
            LET q == req[r].q
            IN  /\ req[r].offset = (req[r].page - 1) * req[r].limit
                /\ q.page = Param(<<"3">>) /\ q.limit = Param(<<"5">>)
                      => req[r].offset = 10
                /\ q.page = Param(<<"-", "1">>) /\ q.limit = Param(<<"1", "0">>)
                      => /\ req[r].page = 0 - 1
                         /\ req[r].offset = 0 - 20
                         /\ req[r].status = 200 => req[r].out.page = 0 - 1

C5_Witness ==
    \E r \in Reqs :
        /\ req[r].kind = "getAll" /\ req[r].status = 200
        /\ req[r].q.page = Param(<<"-", "1">>) /\ req[r].q.limit = Param(<<"1", "0">>)
        /\ req[r].offset = 0 - 20 /\ req[r].out.page = 0 - 1

\* C6: over a table of N rows that does not change, with page >= 1 and
\* limit >= 1, a 200 list response carries total = N, the requested page,
\* totalPages = ceiling(N / limit) and, as data, the rows at positions
\* offset+1 .. offset+limit of the table in creation order, reversed exactly
\* when sort is 'desc'; data has min(limit, max(0, N - offset)) rows
C6_PageOfFixture ==
    \A r \in Reqs :
        req[r].kind = "getAll" /\ req[r].status = 200
            /\ req[r].page >= 1 /\ req[r].limit >= 1 =>
            LET N    == Len(store)
                lim  == req[r].limit
                off  == (req[r].page - 1) * lim
                desc == req[r].q.sort = Param("desc")
                k    == Min(lim, Max(0, N - off))
                at(i) == IF desc THEN store[N + 1 - i] ELSE store[i]
                out  == req[r].out
            IN  /\ out.total = N
                /\ out.page = req[r].page
                /\ out.totalPages * lim >= N /\ (out.totalPages - 1) * lim < N
                /\ Len(out.data) = k
                /\ \A i \in 1..k : /\ out.data[i].id = at(off + i).id
                                   /\ out.data[i].val = at(off + i).val

C6_Witness ==
    \E r \in Reqs :
        /\ ent = "course" /\ Len(store) = 12
        /\ req[r].kind = "getAll" /\ req[r].status = 200
        /\ req[r].q.page = Param(<<"2">>) /\ req[r].q.limit = Param(<<"5">>)
        /\ req[r].q.sort = Param("desc")
        /\ req[r].out.total = 12 /\ req[r].out.page = 2
        /\ req[r].out.totalPages = 3
        /\ [i \in 1..5 |-> req[r].out.data[i].id] = <<7, 6, 5, 4, 3>>

\* name stands in s between two commas or ends of s
IsToken(s, name) ==
    \E i \in 1..Len(s) + 1, j \in 0..Len(s) :
        /\ j = i + Len(name) - 1
        /\ j <= Len(s)
        /\ \A k \in 1..Len(name) : s[i + k - 1] = name[k]
        /\ i = 1 \/ s[i - 1] = ","
        /\ j = Len(s) \/ s[j + 1] = ","

C8_SameEnvelope ==
    \A r \in Reqs :
        req[r].kind = "getAll" /\ req[r].status = 200 =>
            req[r].out.keys = <<"total", "page", "totalPages", "data">>

\* C9: a list request whose count and findAll both settle answers 200, with
\* the total that count read; when no create or destroy took effect between
\* the two, that total is the number of rows findAll saw
C9_TotalMatchesWhenUndisturbed ==
    \A r \in Reqs : req[r].kind = "getAll" /\ Answered(r) =>
        /\ ~req[r].threw => req[r].status = 200
        /\ req[r].status = 200 => req[r].out.total = req[r].total
        /\ req[r].status = 200 /\ ~req[r].dirty => req[r].out.total = req[r].seen

\* the race: a mutation between the two reads, a 200, and a total that is not
\* the number of rows findAll saw
C9_Witness ==
    \E r \in Reqs :
        /\ req[r].kind = "getAll" /\ req[r].status = 200 /\ req[r].dirty
        /\ req[r].out.total # req[r].seen

\* C10: once the lookup of a PUT or DELETE has found the entity, the request
\* has issued its one update / destroy call and answers 200 or 500, never
\* 404, whatever happened to the row meanwhile; every request sends one
\* response, and none before it is done
C10_FoundNever404 ==
    \A r \in Reqs :
        /\ req[r].kind \in {"update", "delete"} /\ req[r].found
              => /\ req[r].calls = 1
                 /\ req[r].pc \in {"update", "destroy", "done"}
                 /\ Answered(r) => req[r].status \in {200, 500}
                 /\ Answered(r) /\ ~req[r].threw => req[r].status = 200
        /\ req[r].sent = (IF Answered(r) THEN 1 ELSE 0)

\* two DELETEs of the same id both passed the existence check and both
\* answered 200
C10_Witness ==
    \E r1, r2 \in Reqs :
        /\ r1 # r2 /\ req[r1].id = req[r2].id
        /\ req[r1].kind = "delete" /\ req[r2].kind = "delete"
        /\ req[r1].found /\ req[r2].found
        /\ req[r1].status = 200 /\ req[r2].status = 200

====
